---- MODULE Spec2Model ----
(***************************************************************************)
(* Model of reddit_scraper/download_subreddit_data.py: the paginated       *)
(* archive fetch loop (ArchiveStream), its backoff policy, the sequential  *)
(* coordinator (CombinedArchiveStream) and the process entry point (main). *)
(*                                                                         *)
(* Timestamps: an item carries created_utc in whole seconds; the cursor    *)
(* (current_date) is in milliseconds.  The archive API is an external      *)
(* input: every response is chosen nondeterministically.  A                *)
(* KeyboardInterrupt is asynchronous: it can arrive while the stream is    *)
(* at any of its blocking points (loop head, request in flight, a write    *)
(* to the file handle, the flush, the backoff sleep).  Outside a stream's  *)
(* try block nothing catches it.  open() on an output file may raise.      *)
(*                                                                         *)
(* The song downloader (song_downloader/downloader.py) is a program of its *)
(* own with its own variables and its own specification, SpecSuno.         *)
(***************************************************************************)
EXTENDS Integers, Sequences, FiniteSets, TLC

\* ------------------------------------------------------------ bounds
MaxTs == 2          \* largest created_utc (seconds) an item can carry
MaxPageLen == 2     \* largest page the API returns
MaxPages == 2       \* non-empty pages accepted over a whole behaviour
MaxErrors == 2      \* failed attempts over a whole behaviour
MaxBackoffPages == 1    \* MaxPages, where the backoff is followed to its end
MaxBackoffErrors == 12  \* MaxErrors, where the backoff is followed to its end
MaxRuns == 2        \* invocations of the program (processes) on the same files
MaxResumePages == 2 \* MaxPages, over the invocations of a resumed download
MaxResumeErrors == 1    \* MaxErrors, over the invocations of a resumed download
MaxCoordPages == 2      \* MaxPages, where both streams are configured
MaxCoordErrors == 2     \* MaxErrors, where both streams are configured
MaxLiveErrors == 2      \* MaxErrors, where termination is followed
MaxRestarts == 1        \* calls of start on an instance whose run has ended
MaxRestartPages == 2    \* MaxPages, where start is called again
MaxRestartErrors == 1   \* MaxErrors, where start is called again
MaxUrls == 2        \* URLs in the list given to the song downloader
MaxSongs == 1       \* distinct song ids in those URLs

\* ------------------------------------------------------------ program constants
MsPerSecond == 1000     \* created_utc * 1000
TieBreakMs == 1000      \* new_date += 1000
PenaltyLimit == 60      \* 0.5 * n**2 > 60
HttpOk == 200           \* response.status_code != 200
MinNameLen == 2         \* len(name) < 2

Streams == {"posts", "comments"}

\* An item is represented by the value of its created_utc field; Missing is
\* an item that has no created_utc field.
Missing == -1
Items == (1..MaxTs) \cup {Missing}

\* The archive the API serves when it honours its contract: one item per
\* second, in ascending order of created_utc.
Archive == 1..MaxTs
ArchiveSeq == [i \in 1..MaxTs |-> i]

\* The pages a response can carry: the empty page, any run of consecutive
\* archive items of at most MaxPageLen items (whatever the cursor asked for:
\* the code does not verify that the items are after it), and a page whose
\* only item has no created_utc.
Slices == {SubSeq(ArchiveSeq, i, j) : i \in 1..MaxTs, j \in 1..MaxTs}
Pages == {<<>>, <<Missing>>} \cup {p \in Slices : Len(p) <= MaxPageLen}

\* ------------------------------------------------------------ DownloadStats
DownloadStats ==
    [total_items |-> 0, repeated_error_count |-> 0,
     is_paused |-> FALSE, is_done |-> FALSE, has_error |-> FALSE]

\* ------------------------------------------------------------ pure pieces of the code
\* last_item.get("created_utc", 0)
CreatedUtc(item) == IF item = Missing THEN 0 ELSE item

\* the timestamp in milliseconds the code derives from an item
ItemMs(item) == CreatedUtc(item) * MsPerSecond

Last(page) == page[Len(page)]

\* NewDate that leaves the cursor where it is
NewDateKeepsCursor(cur, page) == cur

\* NewDate without lines 103-104
NewDateNoTieBreak(cur, page) == ItemMs(Last(page))

\* NewDate with the tie broken by one millisecond
NewDateOneMs(cur, page) ==
    LET new_date == ItemMs(Last(page))
    IN  IF new_date = cur THEN new_date + 1 ELSE new_date

\* NewDate with the tie-break applied to every page
NewDateAlwaysAdds(cur, page) == ItemMs(Last(page)) + TieBreakMs

\* lines 101-105: the cursor after a non-empty page
NewDate(cur, page) ==
    LET new_date == ItemMs(Last(page))
    IN  IF new_date = cur THEN new_date + TieBreakMs ELSE new_date

\* ShouldAbort without the factor 0.5
ShouldAbortNoHalf(n) == n * n > PenaltyLimit

\* line 129: 0.5 * n**2 > 60, in integers
ShouldAbort(n) == n * n > 2 * PenaltyLimit

\* SleepTime as the penalty of line 129, rounded down
SleepTimePenalty(n) == (n * n) \div 2

\* line 136
SleepTime(n) == n

\* json.dumps(item) + "\n": one line per item
Dumps(item) == [json |-> item]

\* lines 111-112: the lines the loop writes for a page
Lines(page) == [i \in 1..Len(page) |-> Dumps(page[i])]

\* Mode that truncates whatever --append says
ModeAlwaysWrite(append) == "w"

\* line 78
Mode(append) == IF append THEN "a" ELSE "w"

\* OpenFile that truncates in every mode
OpenFileTruncates(content, mode) == <<>>

\* open(output_file, mode): "w" truncates, "a" keeps the content
OpenFile(content, mode) == IF mode = "w" THEN <<>> ELSE content

\* A response of the archive API to one GET.  raised: requests.get itself
\* raised (connection error, timeout) or the body is not JSON.
Responses ==
    [raised : BOOLEAN, status_code : {HttpOk, 503}, error : BOOLEAN, data : Pages]

\* _fetch_data, lines 143-153: the page it returns, or the fact that it raised
Raised == [raised |-> TRUE, data |-> <<>>]
FetchData(resp) ==
    IF resp.raised THEN Raised
    ELSE IF resp.status_code # HttpOk THEN Raised
    ELSE IF resp.error THEN Raised
    ELSE [raised |-> FALSE, data |-> resp.data]

\* What an API that honours its contract answers for `after`: a non-empty
\* prefix (limit=auto) of the archive's items strictly after the cursor, in
\* ascending order, or the empty page when none is left.
RECURSIVE Ascending(_)
Ascending(S) ==
    IF S = {} THEN <<>>
    ELSE LET m == CHOOSE x \in S : \A y \in S : x <= y
         IN  <<m>> \o Ascending(S \ {m})

Remaining(cur) == Ascending({i \in Archive : i * MsPerSecond > cur})

ContractPages(cur) ==
    IF Remaining(cur) = <<>> THEN {<<>>}
    ELSE {SubSeq(Remaining(cur), 1, k) :
            k \in 1..(IF Len(Remaining(cur)) < MaxPageLen
                      THEN Len(Remaining(cur)) ELSE MaxPageLen)}

\* ------------------------------------------------------------ validate_name
\* Lengths of the name on the command line
NameLens == {MinNameLen - 1, MinNameLen}

\* A response to the /api/utils/min request.  raised: requests.get raised
\* or the body is not JSON; data: the "data" field is None or absent
\* ("none"), or the date of the earliest item ("date").
MinResponses ==
    [raised : BOOLEAN, status_code : {HttpOk, 404}, error : BOOLEAN,
     data : {"none", "date"}]

\* A response to the search request for the entity's info.  data: the body
\* has no "data" field ("absent"), an empty list ("empty"), a list with an
\* entry ("entry").
InfoResponses ==
    [raised : BOOLEAN, status_code : {HttpOk, 404},
     data : {"absent", "empty", "entry"}]

\* ValidateName without the test of the error field
ValidateNameNoErrorTest(name_len, min, info) ==
    IF name_len < MinNameLen THEN "ValueError"
    ELSE IF min.raised THEN "requests"
    ELSE IF min.status_code # HttpOk THEN "status"
    ELSE IF min.data = "none" THEN "not_found"
    ELSE IF info.raised THEN "requests"
    ELSE IF info.status_code # HttpOk THEN "status"
    ELSE IF info.data = "empty" THEN "IndexError"
    ELSE "ok"

\* validate_name, lines 180-217: "ok" when it returns, else what it raises
ValidateName(name_len, min, info) ==
    IF name_len < MinNameLen THEN "ValueError"
    ELSE IF min.raised THEN "requests"
    ELSE IF min.status_code # HttpOk THEN "status"
    ELSE IF min.error THEN "error"
    ELSE IF min.data = "none" THEN "not_found"
    ELSE IF info.raised THEN "requests"
    ELSE IF info.status_code # HttpOk THEN "status"
    ELSE IF info.data = "empty" THEN "IndexError"
    ELSE "ok"

\* What validate_name was given, as far as it tells whether the name
\* passes: the name is too short, a response carried a status other than
\* 200, the min response carried an error field, it carried no data, a
\* request raised or its body was not JSON, the info response carried an
\* empty data list.
Given(name_len, min, info) ==
    [short |-> name_len < MinNameLen,
     status |-> min.status_code # HttpOk \/ info.status_code # HttpOk,
     error |-> min.error,
     no_data |-> min.data = "none",
     raised |-> min.raised \/ info.raised,
     info_empty |-> info.data = "empty"]

NotValidated ==
    [short |-> FALSE, status |-> FALSE, error |-> FALSE, no_data |-> FALSE,
     raised |-> FALSE, info_empty |-> FALSE]

\* ------------------------------------------------------------ song downloader
\* (src/song_downloader/downloader.py, utils.py, reporters.py)
\* A URL is what the code looks at in it: whether it is blank, whether it
\* holds "suno.com", and the song id in it (NoId when it has none).
NoId == 0
SongIds == 1..MaxSongs

Urls ==
    {[blank |-> TRUE, suno |-> FALSE, song_id |-> NoId],
     [blank |-> FALSE, suno |-> FALSE, song_id |-> NoId]}
    \cup [blank : {FALSE}, suno : {TRUE}, song_id : {NoId} \cup SongIds]

UrlLists == UNION {[1..n -> Urls] : n \in 0..MaxUrls}

\* utils.extract_song_id, lines 41-73: the UUID in the URL, or None
ExtractSongId(url) == url.song_id

\* A path is the directory given to the downloader and the song id that
\* names the file; NoPath is Python's None.
NoPath == [dir |-> "None", name |-> NoId]

\* downloader.py, lines 36 and 71-77: output_dir / "suno" / "<song_id>.mp3"
FilePath(dir, song_id) == [dir |-> dir, name |-> song_id]

\* The text download_from_url_list looks for in the path it got back
SkipMarker == "skipping download"

\* Directories the downloader may be given: the default of line 22, and one
\* whose name holds the text of SkipMarker
OutputDirs == {"downloads", SkipMarker}

\* downloader.py, line 138: "skipping download" in str(filepath).  The file
\* name is a UUID followed by ".mp3", so the text can only be in the
\* directory.
SkippingIn(path) == path.dir = SkipMarker

\* utils.check_existing_file, lines 24-38: the path itself when the file
\* exists and is to be skipped, None otherwise
CheckExistingFile(path, ex, skip) ==
    IF path.name \in ex /\ skip THEN path ELSE NoPath

\* What session.get and the copy of the body may do: a status other than
\* 200, status 200 and a body copied in full, status 200 and a body whose
\* copy raises after the file was created, a request that raises
SongResponses == {"status", "ok", "broken", "raise"}

\* downloader.py, line 119
Results0 == [success |-> 0, failed |-> 0, skipped |-> 0, urls |-> <<>>]

\* reporters.print_download_summary, line 16: the total it prints
Total(r) == r.success + r.failed + r.skipped

\* What happened to one URL of the list (observations):
\*   existed     its target file existed when download_song looked for it
\*   requested   session.get was called for it
\*   downloaded  the body was copied to its file in full in this run
\*   status      how it was counted: "none", "skipped", "success", "failed"
Seen0 ==
    [existed |-> FALSE, requested |-> FALSE, downloaded |-> FALSE,
     status |-> "none"]

\* ------------------------------------------------------------ state
VARIABLES
    mainpc,          \* main / CombinedArchiveStream.start: "boot", "posts",
                     \* "posts_run", "comments", "comments_run", "finish",
                     \* "exit" (main returned), "killed" (it never will)
    args,            \* parsed command line: posts, comments, append
    exit_code,       \* value main returned; -1 while it has not
    run,             \* number of the current invocation of the program
    current_date,    \* [Streams -> cursor in ms]
    stats,           \* [Streams -> DownloadStats]
    pc,              \* [Streams -> "none", "idle", "loop", "fetch", "write",
                     \*             "flush", "sleep", "returned" (start
                     \*             returned), "raised" (start raised)]
    data,            \* [Streams -> page being processed]
    idx,             \* [Streams -> items of data written so far]
    sleep_time,      \* [Streams -> seconds of the sleep in progress]
    after,           \* [Streams -> the after= value of the last request]
    file,            \* [Streams -> lines in the output file]
    buf,             \* [Streams -> lines written to the handle, not yet flushed]
    handle,          \* [Streams -> the file object of the run: "none" (open
                     \*             was not called or raised), "open", "closed"]
    hist,            \* [Streams -> what happened in the current run, see Hist0]
    env,             \* what happened over the whole behaviour, see Env0
    limit,           \* what the environment may still do, see Limit
    \* the song downloader (src/song_downloader), a program of its own
    sunopc,          \* download_from_url_list: "off" (not called), "list"
                     \* (at the head of the loop), "song" (in download_song),
                     \* "request" (session.get in flight), "record"
                     \* (download_song returned), "done" (results returned)
    urls,            \* the list of URLs it was called with
    skip_existing,   \* SunoDownloader.skip_existing
    output_dir,      \* SunoDownloader.output_dir
    exists,          \* song ids with a file <id>.mp3 in output_dir/suno
    url_pos,         \* URLs of the list the loop has taken
    filepath,        \* what download_song returned: NoPath or a path
    results,         \* the dictionary download_from_url_list builds
    seen             \* [position in urls -> what happened to it, see Seen0]

mainVars == <<mainpc, args, exit_code, run>>
streamVars == <<current_date, stats, pc, data, idx, sleep_time, after>>
fileVars == <<file, buf, handle>>
sunoVars == <<sunopc, urls, skip_existing, output_dir, exists, url_pos,
              filepath, results, seen>>
vars == <<mainpc, args, exit_code, run, current_date, stats, pc, data, idx,
          sleep_time, after, file, buf, handle, hist, env, limit, sunopc,
          urls, skip_existing, output_dir, exists, url_pos, filepath, results,
          seen>>

\* History of one run of a stream (observations, read by no action guard):
\*   outcome      result of the latest attempt: "none"; "raise", the fetch
\*                raised; "empty", it returned no item; "page", it returned a
\*                page; "write_raise", writing the page it returned raised
\*   fetched      sum of the sizes of the pages the fetches returned
\*   base         lines in the file when the run opened it
\*   streak       failed attempts since the last attempt that succeeded
\*   delays       seconds slept since the last attempt that succeeded
\*   interrupted  where a KeyboardInterrupt hit the run ("no" if none did)
\*   aborted      the run gave up after too many errors
\*   write_raised a write to the file handle, or its flush, raised
\*   wrote        calls of file_handle.write that returned
\*   accepted     the lines of the non-empty pages the fetches returned
\*   committed    the lines of the pages whose writes and flush returned
Hist0 ==
    [outcome |-> "none", fetched |-> 0, base |-> 0, streak |-> 0,
     delays |-> <<>>, interrupted |-> "no", aborted |-> FALSE,
     write_raised |-> FALSE, wrote |-> 0, accepted |-> <<>>,
     committed |-> <<>>]

\* History of the behaviour:
\*   contract     every page returned so far is one ContractPages allows
\*   earlier[s]   how the previous invocation left stream s: "none" (there
\*                was no run), "done", or where the interruption hit it
\*   before[s]    the lines of the file of s when this invocation began
\*   given        what validate_name was given in this invocation, see Given
Env0 ==
    [contract |-> TRUE, earlier |-> [s \in Streams |-> "none"],
     before |-> [s \in Streams |-> <<>>], given |-> NotValidated]

\* What the environment of the program may still do in a behaviour:
\*   pages        non-empty pages the API may still return
\*   errors       attempts that may still fail
\*   runs         times the program may still be invoked, or start be
\*                called again on an instance whose run has ended
\*   honest       the API answers only what ContractPages allows
\*   streams      the sets of streams the command line may ask for
\*   append       the values of --append the command line may carry
Limit(pages, errors, runs, honest, streams, append) ==
    [pages |-> pages, errors |-> errors, runs |-> runs, honest |-> honest,
     streams |-> streams, append |-> append]

PostsOnly == {{"posts"}}
AnyStreams == {{"posts"}, {"comments"}, {"posts", "comments"}}

\* The crawler before main has done anything.
BootStreams ==
    /\ mainpc = "boot"
    /\ args = [posts |-> FALSE, comments |-> FALSE, append |-> FALSE]
    /\ exit_code = -1
    /\ run = 1
    /\ current_date = [s \in Streams |-> 0]
    /\ stats = [s \in Streams |-> DownloadStats]
    /\ pc = [s \in Streams |-> "none"]
    /\ data = [s \in Streams |-> <<>>]
    /\ idx = [s \in Streams |-> 0]
    /\ sleep_time = [s \in Streams |-> 0]
    /\ after = [s \in Streams |-> 0]
    /\ file = [s \in Streams |-> <<>>]
    /\ buf = [s \in Streams |-> <<>>]
    /\ handle = [s \in Streams |-> "none"]
    /\ hist = [s \in Streams |-> Hist0]
    /\ env = Env0

\* The song downloader is not run.
SunoOff ==
    /\ sunopc = "off"
    /\ urls = <<>>
    /\ skip_existing = TRUE
    /\ output_dir = "downloads"
    /\ exists = {}
    /\ url_pos = 0
    /\ filepath = NoPath
    /\ results = Results0
    /\ seen = <<>>

Boot ==
    /\ BootStreams
    /\ SunoOff

\* One invocation for one stream, against an API that answers anything.
Init ==
    /\ Boot
    /\ limit = Limit(MaxPages, MaxErrors, 0, FALSE, PostsOnly, {FALSE})

\* The same, with fewer pages and enough failures to exhaust the backoff.
InitBackoff ==
    /\ Boot
    /\ limit = Limit(MaxBackoffPages, MaxBackoffErrors, 0, FALSE, PostsOnly, {FALSE})

\* ------------------------------------------------------------ helpers of the actions
\* CloseFile as if the file were opened without `with` and never closed
CloseFileNever(s) == UNCHANGED <<file, buf, handle>>

\* leaving `with open(...) as f`: the handle is closed, which flushes it
CloseFile(s) ==
    /\ file' = [file EXCEPT ![s] = @ \o buf[s]]
    /\ buf' = [buf EXCEPT ![s] = <<>>]
    /\ handle' = [handle EXCEPT ![s] = "closed"]

\* CombinedArchiveStream.start: the statement after stream s's start()
AfterStream(s) == IF s = "posts" THEN "comments" ELSE "finish"

\* ArchiveStream.start returns to CombinedArchiveStream.start
Return(s) ==
    /\ pc' = [pc EXCEPT ![s] = "returned"]
    /\ mainpc' = AfterStream(s)

Running(s) == pc[s] \in {"loop", "fetch", "write", "flush", "sleep"}

\* Handler as if the loop had no except branch: the exception leaves _run
\* and start, the with block closing the file on the way
HandlerPropagates(s, outcome) ==
    /\ limit.errors > 0
    /\ limit' = [limit EXCEPT !.errors = @ - 1]
    /\ CloseFile(s)
    /\ pc' = [pc EXCEPT ![s] = "raised"]
    /\ mainpc' = "exit"
    /\ hist' = [hist EXCEPT ![s].outcome = outcome, ![s].streak = @ + 1]
    /\ UNCHANGED <<stats, sleep_time, env>>

\* Handler as if the except branch also reset the item count
HandlerResetsCount(s, outcome) ==
    LET n == stats[s].repeated_error_count + 1
    IN  /\ limit.errors > 0
        /\ limit' = [limit EXCEPT !.errors = @ - 1]
        /\ UNCHANGED env
        /\ stats' = [stats EXCEPT ![s].has_error = TRUE,
                                  ![s].repeated_error_count = n,
                                  ![s].total_items = 0]
        /\ sleep_time' = [sleep_time EXCEPT ![s] = SleepTime(n)]
        /\ pc' = [pc EXCEPT ![s] = "sleep"]
        /\ hist' = [hist EXCEPT ![s].outcome = outcome, ![s].streak = @ + 1]
        /\ UNCHANGED <<mainpc, file, buf, handle>>

\* lines 123-138: the except branch of the loop body.  outcome records
\* what the fetch of this attempt did.
Handler(s, outcome) ==
    LET n == stats[s].repeated_error_count + 1
    IN  /\ limit.errors > 0
        /\ limit' = [limit EXCEPT !.errors = @ - 1]
        /\ UNCHANGED env
        /\ IF ShouldAbort(n)
           THEN /\ stats' = [stats EXCEPT ![s].has_error = TRUE,
                                          ![s].repeated_error_count = n,
                                          ![s].is_done = TRUE]
                /\ CloseFile(s)
                /\ Return(s)
                /\ UNCHANGED sleep_time
                /\ hist' = [hist EXCEPT ![s].outcome = outcome,
                                        ![s].streak = @ + 1,
                                        ![s].aborted = TRUE,
                                        ![s].write_raised =
                                            @ \/ outcome = "write_raise"]
           ELSE /\ stats' = [stats EXCEPT ![s].has_error = TRUE,
                                          ![s].repeated_error_count = n]
                /\ sleep_time' = [sleep_time EXCEPT ![s] = SleepTime(n)]
                /\ pc' = [pc EXCEPT ![s] = "sleep"]
                /\ hist' = [hist EXCEPT ![s].outcome = outcome,
                                        ![s].streak = @ + 1,
                                        ![s].delays = Append(@, SleepTime(n)),
                                        ![s].write_raised =
                                            @ \/ outcome = "write_raise"]
                /\ UNCHANGED <<mainpc, file, buf, handle>>

\* ------------------------------------------------------------ ArchiveStream
\* StartStream as if the streams shared one cursor, the one of the posts
\* stream
StartStreamSharedCursor(s) ==
    /\ file' = [file EXCEPT ![s] = OpenFile(@, Mode(args.append))]
    /\ buf' = [buf EXCEPT ![s] = <<>>]
    /\ handle' = [handle EXCEPT ![s] = "open"]
    /\ stats' = [stats EXCEPT ![s].is_paused = FALSE]
    /\ pc' = [pc EXCEPT ![s] = "loop"]
    /\ hist' = [hist EXCEPT ![s].base = Len(OpenFile(file[s], Mode(args.append)))]
    /\ current_date' = [current_date EXCEPT ![s] = current_date["posts"]]
    /\ UNCHANGED <<data, idx, sleep_time, after, env, limit>>

\* start, lines 76-84: open the file and enter _run
StartStream(s) ==
    /\ file' = [file EXCEPT ![s] = OpenFile(@, Mode(args.append))]
    /\ buf' = [buf EXCEPT ![s] = <<>>]
    /\ handle' = [handle EXCEPT ![s] = "open"]
    /\ stats' = [stats EXCEPT ![s].is_paused = FALSE]
    /\ pc' = [pc EXCEPT ![s] = "loop"]
    /\ hist' = [hist EXCEPT ![s].base = Len(OpenFile(file[s], Mode(args.append)))]
    /\ UNCHANGED <<current_date, data, idx, sleep_time, after, env, limit>>

\* _run, line 91 and lines 142-143: test the loop condition, send the request
LoopTest(s) ==
    /\ pc[s] = "loop"
    /\ IF ~stats[s].is_paused /\ ~stats[s].is_done
       THEN /\ after' = [after EXCEPT ![s] = current_date[s]]
            /\ pc' = [pc EXCEPT ![s] = "fetch"]
            /\ UNCHANGED <<mainpc, file, buf, handle>>
       ELSE /\ CloseFile(s)
            /\ Return(s)
            /\ UNCHANGED after
    /\ UNCHANGED <<args, exit_code, run, current_date, stats, data, idx,
                   sleep_time, hist, env, limit>>
    /\ UNCHANGED sunoVars

\* EmptyPage as if line 97 did not break and the loop went on to fetch
EmptyPageNoBreak(s) ==
    /\ stats' = [stats EXCEPT ![s].is_done = TRUE]
    /\ pc' = [pc EXCEPT ![s] = "fetch"]
    /\ hist' = [hist EXCEPT ![s].outcome = "empty"]
    /\ env' = [env EXCEPT !.contract = @ /\ <<>> \in ContractPages(after[s])]
    /\ UNCHANGED <<mainpc, file, buf, handle, current_date, data, idx,
                   sleep_time, limit>>

\* _run, lines 93-97: the fetch returned no item
EmptyPage(s) ==
    /\ stats' = [stats EXCEPT ![s].is_done = TRUE]
    /\ CloseFile(s)
    /\ Return(s)
    /\ hist' = [hist EXCEPT ![s].outcome = "empty"]
    /\ env' = [env EXCEPT !.contract = @ /\ <<>> \in ContractPages(after[s])]
    /\ UNCHANGED <<current_date, data, idx, sleep_time, limit>>

\* _run, lines 99-108: the fetch returned a page; stats and cursor are
\* updated before the first write
AcceptPage(s, page) ==
    /\ limit.pages > 0
    /\ limit' = [limit EXCEPT !.pages = @ - 1]
    /\ stats' = [stats EXCEPT ![s].total_items = @ + Len(page)]
    /\ current_date' = [current_date EXCEPT ![s] = NewDate(@, page)]
    /\ data' = [data EXCEPT ![s] = page]
    /\ idx' = [idx EXCEPT ![s] = 0]
    /\ pc' = [pc EXCEPT ![s] = "write"]
    /\ hist' = [hist EXCEPT ![s].outcome = "page",
                            ![s].fetched = @ + Len(page),
                            ![s].accepted = @ \o Lines(page)]
    /\ env' = [env EXCEPT !.contract = @ /\ page \in ContractPages(after[s])]
    /\ UNCHANGED <<mainpc, sleep_time, file, buf, handle>>

\* _run, line 93: the response to the request in flight arrives
FetchResponse(s) ==
    /\ pc[s] = "fetch"
    /\ \E resp \in Responses :
         LET r == FetchData(resp)
         IN  /\ limit.honest => (r.raised \/ r.data \in ContractPages(after[s]))
             /\ IF r.raised
                THEN /\ Handler(s, "raise")
                     /\ UNCHANGED <<current_date, data, idx>>
                ELSE IF Len(r.data) = 0
                THEN EmptyPage(s)
                ELSE AcceptPage(s, r.data)
    /\ UNCHANGED <<args, exit_code, run, after>>
    /\ UNCHANGED sunoVars

\* _run, lines 111-112: one file_handle.write, which may raise (OSError)
WriteItem(s) ==
    /\ pc[s] = "write"
    /\ \/ /\ buf' = [buf EXCEPT ![s] = Append(@, Dumps(data[s][idx[s] + 1]))]
          /\ idx' = [idx EXCEPT ![s] = @ + 1]
          /\ hist' = [hist EXCEPT ![s].wrote = @ + 1]
          /\ pc' = [pc EXCEPT ![s] =
                        IF idx[s] + 1 = Len(data[s]) THEN "flush" ELSE "write"]
          /\ UNCHANGED <<mainpc, stats, sleep_time, file, handle, env, limit>>
          /\ UNCHANGED data
       \/ /\ Handler(s, "write_raise")
          /\ UNCHANGED <<data, idx>>
    /\ UNCHANGED <<args, exit_code, run, current_date, after>>
    /\ UNCHANGED sunoVars

\* Flush without lines 117-118: the error flag is left as it is
FlushKeepsFlag(s) ==
    /\ pc[s] = "flush"
    /\ file' = [file EXCEPT ![s] = @ \o buf[s]]
    /\ buf' = [buf EXCEPT ![s] = <<>>]
    /\ stats' = [stats EXCEPT ![s].repeated_error_count = 0]
    /\ pc' = [pc EXCEPT ![s] = "loop"]
    /\ data' = [data EXCEPT ![s] = <<>>]
    /\ idx' = [idx EXCEPT ![s] = 0]
    /\ hist' = [hist EXCEPT ![s].streak = 0, ![s].delays = <<>>,
                            ![s].committed = @ \o Lines(data[s])]
    /\ UNCHANGED <<mainpc, sleep_time, handle, env, limit>>
    /\ UNCHANGED <<args, exit_code, run, current_date, after>>
    /\ UNCHANGED sunoVars

\* _run, lines 113-118: flush, then reset the error count and the error
\* flag.  data and the position in it are dead until the next fetch assigns
\* them, and are cleared here.
Flush(s) ==
    /\ pc[s] = "flush"
    /\ \/ /\ file' = [file EXCEPT ![s] = @ \o buf[s]]
          /\ buf' = [buf EXCEPT ![s] = <<>>]
          /\ stats' = [stats EXCEPT ![s].repeated_error_count = 0,
                                    ![s].has_error = FALSE]
          /\ pc' = [pc EXCEPT ![s] = "loop"]
          /\ data' = [data EXCEPT ![s] = <<>>]
          /\ idx' = [idx EXCEPT ![s] = 0]
          /\ hist' = [hist EXCEPT ![s].streak = 0, ![s].delays = <<>>,
                                  ![s].committed = @ \o Lines(data[s])]
          /\ UNCHANGED <<mainpc, sleep_time, handle, env, limit>>
       \/ /\ Handler(s, "write_raise")
          /\ UNCHANGED <<data, idx>>
    /\ UNCHANGED <<args, exit_code, run, current_date, after>>
    /\ UNCHANGED sunoVars

\* _run, line 138: the sleep ends
SleepDone(s) ==
    /\ pc[s] = "sleep"
    /\ pc' = [pc EXCEPT ![s] = "loop"]
    /\ UNCHANGED <<mainVars, current_date, stats, data, idx, sleep_time, after,
                   fileVars, hist, env, limit>>
    /\ UNCHANGED sunoVars

\* Interrupt as if the interruption cancelled the streams still to run
InterruptCancelsAll(s) ==
    /\ Running(s)
    /\ stats' = [stats EXCEPT ![s].is_paused = TRUE]
    /\ CloseFile(s)
    /\ pc' = [pc EXCEPT ![s] = "returned"]
    /\ mainpc' = "finish"
    /\ hist' = [hist EXCEPT ![s].interrupted = pc[s]]
    /\ UNCHANGED <<args, exit_code, run, current_date, data, idx, sleep_time,
                   after, env, limit>>
    /\ UNCHANGED sunoVars

\* start, lines 83-87: KeyboardInterrupt is no Exception, so it leaves _run
\* from wherever the stream is, the with block closes the file, and the
\* handler marks the stream paused
Interrupt(s) ==
    /\ Running(s)
    /\ stats' = [stats EXCEPT ![s].is_paused = TRUE]
    /\ CloseFile(s)
    /\ Return(s)
    /\ hist' = [hist EXCEPT ![s].interrupted = pc[s]]
    /\ UNCHANGED <<args, exit_code, run, current_date, data, idx, sleep_time,
                   after, env, limit>>
    /\ UNCHANGED sunoVars

\* ------------------------------------------------------------ main
\* The command line, lines 231-273: neither --posts nor --comments means both.
ParseArgs(posts, comments, append) ==
    [posts |-> IF ~posts /\ ~comments THEN TRUE ELSE posts,
     comments |-> IF ~posts /\ ~comments THEN TRUE ELSE comments,
     append |-> append]

\* start_timestamp, lines 303-310: midnight of a day; the model's day 0
StartDates == {0}

\* main, lines 280-354, when validate_name returned: the streams are
\* constructed, each with its own DownloadStats and current_date = start_date
MainSetup ==
    /\ mainpc = "boot"
    /\ \E posts \in BOOLEAN, comments \in BOOLEAN, append \in BOOLEAN,
          start_timestamp \in StartDates, name_len \in NameLens,
          min \in MinResponses, info \in InfoResponses :
         LET a == ParseArgs(posts, comments, append)
         IN  /\ {s \in Streams : a[s]} \in limit.streams
             /\ append \in limit.append
             /\ ValidateName(name_len, min, info) = "ok"
             /\ env' = [env EXCEPT !.given = Given(name_len, min, info)]
             /\ args' = a
             /\ pc' = [s \in Streams |->
                         IF (s = "posts" /\ a.posts) \/ (s = "comments" /\ a.comments)
                         THEN "idle" ELSE "none"]
             /\ current_date' = [s \in Streams |-> start_timestamp]
    /\ stats' = [s \in Streams |-> DownloadStats]
    /\ mainpc' = "posts"
    /\ UNCHANGED <<exit_code, run, data, idx, sleep_time, after, fileVars,
                   hist, limit>>
    /\ UNCHANGED sunoVars

\* main, lines 280-282 and 360-362: validate_name raised
MainInvalid ==
    /\ mainpc = "boot"
    /\ \E name_len \in NameLens, min \in MinResponses, info \in InfoResponses :
         /\ ValidateName(name_len, min, info) # "ok"
         /\ env' = [env EXCEPT !.given = Given(name_len, min, info)]
    /\ mainpc' = "exit"
    /\ exit_code' = 1
    /\ UNCHANGED <<args, run, streamVars, fileVars, hist, limit>>
    /\ UNCHANGED sunoVars

\* start, line 83, and main, lines 360-362: open() raised (OSError: the
\* path is a directory, is not writable, ...).  The file is left as it
\* was.  OSError is no KeyboardInterrupt: it leaves start and
\* CombinedArchiveStream.start and reaches the except clause of main.
OpenRaises(s) ==
    /\ mainpc = s
    /\ pc[s] = "idle"
    /\ stats' = [stats EXCEPT ![s].is_paused = FALSE]
    /\ pc' = [pc EXCEPT ![s] = "raised"]
    /\ mainpc' = "exit"
    /\ exit_code' = 1
    /\ UNCHANGED <<args, run, current_date, data, idx, sleep_time, after,
                   fileVars, hist, env, limit>>
    /\ UNCHANGED sunoVars

\* A KeyboardInterrupt while main is outside the try block of a stream's
\* start (validating, setting up, between the two streams, returning):
\* nothing catches it (except Exception does not) and the process dies
\* without main returning.
InterruptMain ==
    /\ mainpc \in {"boot", "posts", "comments", "finish"}
    /\ mainpc' = "killed"
    /\ UNCHANGED <<args, exit_code, run, streamVars, fileVars, hist, env, limit>>
    /\ UNCHANGED sunoVars

\* CombinedStart as if start() returned at once and the stream ran on in
\* the background
CombinedStartAsync(s) ==
    /\ mainpc = s
    /\ IF pc[s] = "idle"
       THEN StartStream(s)
       ELSE UNCHANGED <<streamVars, fileVars, hist, env, limit>>
    /\ mainpc' = AfterStream(s)
    /\ UNCHANGED <<args, exit_code, run>>
    /\ UNCHANGED sunoVars

\* CombinedArchiveStream.start, lines 167-173, for one of the two streams
CombinedStart(s) ==
    /\ mainpc = s
    /\ IF pc[s] = "idle"
       THEN /\ StartStream(s)
            /\ mainpc' = IF s = "posts" THEN "posts_run" ELSE "comments_run"
       ELSE /\ mainpc' = AfterStream(s)
            /\ UNCHANGED <<streamVars, fileVars, hist, env, limit>>
    /\ UNCHANGED <<args, exit_code, run>>
    /\ UNCHANGED sunoVars

\* CombinedArchiveStream.start, line 175, and main, line 364
MainReturn ==
    /\ mainpc = "finish"
    /\ mainpc' = "exit"
    /\ exit_code' = 0
    /\ UNCHANGED <<args, run, streamVars, fileVars, hist, env, limit>>
    /\ UNCHANGED sunoVars

\* The program is invoked again: a new process, the files of the last one
NewProcess ==
    /\ mainpc \in {"exit", "killed"}
    /\ limit.runs > 0
    /\ limit' = [limit EXCEPT !.runs = @ - 1]
    /\ run' = run + 1
    /\ mainpc' = "boot"
    /\ exit_code' = -1
    /\ args' = [posts |-> FALSE, comments |-> FALSE, append |-> FALSE]
    /\ current_date' = [s \in Streams |-> 0]
    /\ stats' = [s \in Streams |-> DownloadStats]
    /\ pc' = [s \in Streams |-> "none"]
    /\ data' = [s \in Streams |-> <<>>]
    /\ idx' = [s \in Streams |-> 0]
    /\ sleep_time' = [s \in Streams |-> 0]
    /\ after' = [s \in Streams |-> 0]
    /\ hist' = [s \in Streams |-> Hist0]
    /\ env' = [env EXCEPT !.earlier =
                 [s \in Streams |->
                    IF stats[s].is_paused THEN hist[s].interrupted
                    ELSE IF stats[s].is_done THEN "done" ELSE "none"],
                          !.before = file,
                          !.given = NotValidated]
    /\ handle' = [s \in Streams |-> "none"]
    /\ UNCHANGED <<file, buf>>
    /\ UNCHANGED sunoVars

Next ==
    \/ MainSetup
    \/ MainInvalid
    \/ \E s \in Streams : CombinedStart(s)
    \/ \E s \in Streams : OpenRaises(s)
    \/ InterruptMain
    \/ \E s \in Streams : LoopTest(s)
    \/ \E s \in Streams : FetchResponse(s)
    \/ \E s \in Streams : WriteItem(s)
    \/ \E s \in Streams : Flush(s)
    \/ \E s \in Streams : SleepDone(s)
    \/ \E s \in Streams : Interrupt(s)
    \/ MainReturn

Spec == Init /\ [][Next]_vars

\* The program is invoked up to MaxRuns times on the same output files,
\* with or without --append, against an API that honours its contract.
InitResume ==
    /\ Boot
    /\ limit = Limit(MaxResumePages, MaxResumeErrors, MaxRuns - 1, TRUE,
                     PostsOnly, BOOLEAN)

NextResume ==
    \/ MainSetup
    \/ MainInvalid
    \/ \E s \in Streams : CombinedStart(s)
    \/ \E s \in Streams : OpenRaises(s)
    \/ InterruptMain
    \/ \E s \in Streams : LoopTest(s)
    \/ \E s \in Streams : FetchResponse(s)
    \/ \E s \in Streams : WriteItem(s)
    \/ \E s \in Streams : Flush(s)
    \/ \E s \in Streams : SleepDone(s)
    \/ \E s \in Streams : Interrupt(s)
    \/ MainReturn
    \/ NewProcess

SpecResume == InitResume /\ [][NextResume]_vars

SpecBackoff == InitBackoff /\ [][Next]_vars

\* start, lines 76-87, called again on an instance whose run has ended (by
\* a caller other than main, which calls it once): is_paused is cleared,
\* the file is opened again in the instance's mode, and _run is entered
\* with the cursor and the stats the earlier run left.  before and earlier
\* record the file and the end of the earlier run.
StartAgain(s) ==
    /\ pc[s] = "returned"
    /\ mainpc = AfterStream(s)
    /\ limit.runs > 0
    /\ limit' = [limit EXCEPT !.runs = @ - 1]
    /\ file' = [file EXCEPT ![s] = OpenFile(@, Mode(args.append))]
    /\ buf' = [buf EXCEPT ![s] = <<>>]
    /\ handle' = [handle EXCEPT ![s] = "open"]
    /\ stats' = [stats EXCEPT ![s].is_paused = FALSE]
    /\ pc' = [pc EXCEPT ![s] = "loop"]
    /\ mainpc' = IF s = "posts" THEN "posts_run" ELSE "comments_run"
    /\ hist' = [hist EXCEPT ![s] =
                 [Hist0 EXCEPT !.base = Len(OpenFile(file[s], Mode(args.append)))]]
    /\ env' = [env EXCEPT !.before[s] = file[s],
                          !.earlier[s] = IF stats[s].is_paused
                                         THEN hist[s].interrupted ELSE "done"]
    /\ UNCHANGED <<args, exit_code, run, current_date, data, idx, sleep_time,
                   after>>
    /\ UNCHANGED sunoVars

\* One invocation for one stream, with or without --append, against an
\* API that honours its contract, in which start may be called again.
InitRestart ==
    /\ Boot
    /\ limit = Limit(MaxRestartPages, MaxRestartErrors, MaxRestarts, TRUE,
                     PostsOnly, BOOLEAN)

NextRestart ==
    \/ MainSetup
    \/ MainInvalid
    \/ \E s \in Streams : CombinedStart(s)
    \/ \E s \in Streams : OpenRaises(s)
    \/ InterruptMain
    \/ \E s \in Streams : LoopTest(s)
    \/ \E s \in Streams : FetchResponse(s)
    \/ \E s \in Streams : WriteItem(s)
    \/ \E s \in Streams : Flush(s)
    \/ \E s \in Streams : SleepDone(s)
    \/ \E s \in Streams : Interrupt(s)
    \/ MainReturn
    \/ \E s \in Streams : StartAgain(s)

SpecRestart == InitRestart /\ [][NextRestart]_vars

\* One invocation for posts, for comments or for both, against an API that
\* honours its contract when it answers.
InitCoordinator ==
    /\ Boot
    /\ limit = Limit(MaxCoordPages, MaxCoordErrors, 0, TRUE, AnyStreams, {FALSE})

SpecCoordinator == InitCoordinator /\ [][Next]_vars

\* One invocation for one stream against an API that honours its contract
\* over a finite archive: it has a page for every cursor the archive has an
\* item after (an ascending page advances the cursor by at least one item,
\* so MaxTs pages are all it can be asked for).  The statements of _run
\* are executed one after the other, every request is answered and every
\* sleep ends: the steps of a running stream are weakly fair.  Nothing is
\* assumed of interruptions.
InitLive ==
    /\ Boot
    /\ limit = Limit(MaxTs, MaxLiveErrors, 0, TRUE, PostsOnly, {FALSE})

StreamStep ==
    \E s \in Streams :
        LoopTest(s) \/ FetchResponse(s) \/ WriteItem(s) \/ Flush(s) \/ SleepDone(s)

SpecLive == InitLive /\ [][Next]_vars /\ WF_vars(StreamStep)

\* ------------------------------------------------------------ SunoDownloader
crawlerVars ==
    <<mainpc, args, exit_code, run, current_date, stats, pc, data, idx,
      sleep_time, after, file, buf, handle, hist, env, limit>>

Url == urls[url_pos]

\* download_from_url_list, lines 121-133: the loop takes the next URL; a
\* blank one and one without "suno.com" are counted as skipped and get no
\* entry in results["urls"]; for any other download_song is called
TakeUrl ==
    /\ sunopc = "list"
    /\ url_pos < Len(urls)
    /\ url_pos' = url_pos + 1
    /\ LET url == urls[url_pos + 1]
       IN  IF url.blank \/ ~url.suno
           THEN /\ results' = [results EXCEPT !.skipped = @ + 1]
                /\ seen' = [seen EXCEPT ![url_pos + 1].status = "skipped"]
                /\ UNCHANGED sunopc
           ELSE /\ sunopc' = "song"
                /\ UNCHANGED <<results, seen>>
    /\ UNCHANGED <<urls, skip_existing, output_dir, exists, filepath>>
    /\ UNCHANGED crawlerVars

\* download_song, lines 63-90: no song id, None; the file exists and is to
\* be skipped, its path; otherwise the request for the CDN URL is sent
DownloadSong ==
    /\ sunopc = "song"
    /\ LET song_id == ExtractSongId(Url)
           path == FilePath(output_dir, song_id)
           existing == CheckExistingFile(path, exists, skip_existing)
       IN  IF song_id = NoId
           THEN /\ filepath' = NoPath
                /\ sunopc' = "record"
                /\ UNCHANGED seen
           ELSE /\ seen' = [seen EXCEPT ![url_pos].existed = song_id \in exists,
                                        ![url_pos].requested = existing = NoPath]
                /\ IF existing # NoPath
                   THEN /\ filepath' = existing
                        /\ sunopc' = "record"
                   ELSE /\ filepath' = NoPath
                        /\ sunopc' = "request"
    /\ UNCHANGED <<urls, skip_existing, output_dir, exists, url_pos, results>>
    /\ UNCHANGED crawlerVars

\* download_song, lines 90-104: the response arrives.  open(filepath, "wb")
\* creates the file before the body is copied; every exception is caught
\* and gives None.
SongResponse ==
    /\ sunopc = "request"
    /\ \E resp \in SongResponses :
         LET song_id == ExtractSongId(Url)
         IN  /\ exists' = IF resp \in {"ok", "broken"}
                          THEN exists \cup {song_id} ELSE exists
             /\ filepath' = IF resp = "ok"
                            THEN FilePath(output_dir, song_id) ELSE NoPath
             /\ seen' = [seen EXCEPT ![url_pos].downloaded = resp = "ok"]
    /\ sunopc' = "record"
    /\ UNCHANGED <<urls, skip_existing, output_dir, url_pos, results>>
    /\ UNCHANGED crawlerVars

\* download_from_url_list, lines 135-152: the URL is counted by what
\* download_song returned
RecordResult ==
    /\ sunopc = "record"
    /\ LET status == IF filepath = NoPath THEN "failed"
                     ELSE IF SkippingIn(filepath) THEN "skipped"
                     ELSE "success"
           url_result == [url |-> Url, status |-> status,
                          filepath |-> IF status = "success"
                                       THEN filepath ELSE NoPath]
       IN  /\ results' = [results EXCEPT ![status] = @ + 1,
                                         !.urls = Append(@, url_result)]
           /\ seen' = [seen EXCEPT ![url_pos].status = status]
    /\ sunopc' = "list"
    /\ filepath' = NoPath
    /\ UNCHANGED <<urls, skip_existing, output_dir, exists, url_pos>>
    /\ UNCHANGED crawlerVars

\* download_from_url_list, line 154: the list is exhausted, results returned
ReturnResults ==
    /\ sunopc = "list"
    /\ url_pos = Len(urls)
    /\ sunopc' = "done"
    /\ UNCHANGED <<urls, skip_existing, output_dir, exists, url_pos, filepath,
                   results, seen>>
    /\ UNCHANGED crawlerVars

\* download_from_url_list is called on a new SunoDownloader with any list
\* of up to MaxUrls URLs, either value of skip_existing, and any files
\* already in the directory.
InitSuno ==
    /\ BootStreams
    /\ limit = Limit(0, 0, 0, TRUE, PostsOnly, {FALSE})
    /\ sunopc = "list"
    /\ urls \in UrlLists
    /\ skip_existing \in BOOLEAN
    /\ output_dir \in OutputDirs
    /\ exists \in SUBSET SongIds
    /\ url_pos = 0
    /\ filepath = NoPath
    /\ results = Results0
    /\ seen = [k \in 1..Len(urls) |-> Seen0]

NextSuno ==
    \/ TakeUrl
    \/ DownloadSong
    \/ SongResponse
    \/ RecordResult
    \/ ReturnResults

SpecSuno == InitSuno /\ [][NextSuno]_vars

\* ------------------------------------------------------------ observations
\* lines the current run of s has written to its file handle
Written(s) == Len(file[s]) + Len(buf[s]) - hist[s].base

NoDuplicates(lines) ==
    \A i, j \in 1..Len(lines) : i # j => lines[i] # lines[j]

HoldsArchive(lines) ==
    \A a \in Archive : \E i \in 1..Len(lines) : lines[i] = Dumps(a)

RECURSIVE Sum(_)
Sum(q) == IF q = <<>> THEN 0 ELSE q[1] + Sum(Tail(q))

TypeOK ==
    /\ mainpc \in {"boot", "posts", "posts_run", "comments", "comments_run",
                   "finish", "exit", "killed"}
    /\ exit_code \in {-1, 0, 1}
    /\ run \in 1..(MaxRuns + 1)
    /\ \A s \in Streams :
         /\ pc[s] \in {"none", "idle", "loop", "fetch", "write", "flush",
                       "sleep", "returned", "raised"}
         /\ handle[s] \in {"none", "open", "closed"}
         /\ data[s] \in Pages
         /\ idx[s] \in 0..Len(data[s])
         /\ stats[s].repeated_error_count \in Nat

\* ------------------------------------------------------------ claims
\* C1: whenever a fetch returns an empty page, the stream ends with
\* is_done = true and has_error = false, whatever fetches failed before it
\* in the run, the fetch right before the empty page included.
C1_EmptyPageDoneNoError ==
    \A s \in Streams :
        (hist[s].outcome = "empty" /\ ~hist[s].write_raised)
            => stats[s].is_done /\ ~stats[s].has_error

\* C2, as claimed: when the timestamp of the last item of a non-empty page
\* equals the cursor the page was requested with, the new cursor is that
\* cursor plus 1 millisecond (stated for last items that carry created_utc).
C2_TieAddsOneMillisecond ==
    \A s \in Streams :
        (/\ pc[s] \in {"write", "flush"}
         /\ Last(data[s]) # Missing
         /\ Last(data[s]) * 1000 = after[s])
            => current_date[s] = after[s] + 1

\* C2, amended: in that case the new cursor is the old cursor plus 1000
\* milliseconds (one second).
C2_TieAddsOneSecond ==
    \A s \in Streams :
        (pc[s] \in {"write", "flush"} /\ ItemMs(Last(data[s])) = after[s])
            => current_date[s] = after[s] + 1000

\* C2, witness: a page whose last item carries the timestamp of the cursor
\* it was requested with has been accepted.
C2_Witness ==
    \E s \in Streams :
        /\ pc[s] = "write"
        /\ Last(data[s]) # Missing
        /\ Last(data[s]) * 1000 = after[s]

\* C3: no step of a run makes the cursor smaller.
C3_CursorNeverDecreases ==
    [][\A s \in Streams : Running(s) => current_date'[s] >= current_date[s]]_vars

\* C10: after a non-empty page whose last item's timestamp differs from the
\* cursor it was requested with, the new cursor is the timestamp of that
\* item in milliseconds, with nothing added.
C10_CursorIsLastTimestamp ==
    \A s \in Streams :
        (/\ pc[s] \in {"write", "flush"}
         /\ Last(data[s]) # Missing
         /\ Last(data[s]) * 1000 # after[s])
            => current_date[s] = Last(data[s]) * 1000

\* C10, witness: a page of several items has been accepted whose last
\* timestamp differs from the cursor it was requested with.
C10_Witness ==
    \E s \in Streams :
        /\ pc[s] = "write"
        /\ Len(data[s]) > 1
        /\ Last(data[s]) # Missing
        /\ Last(data[s]) * 1000 # after[s]
        /\ current_date[s] > after[s]

\* C4: after an interrupted run is resumed by a new invocation in append
\* mode, once the new run is done the file holds no item twice and misses
\* no item of the archive.  Stated for the cleanest resume: the API honours
\* its contract in both invocations, nothing ever failed, and the
\* interruption hit the earlier run between two pages.
C4_ResumeNoDuplicateNoLoss ==
    \A s \in Streams :
        (/\ env.earlier[s] \in {"loop", "fetch", "sleep"}
         /\ env.contract
         /\ limit.errors = MaxResumeErrors
         /\ args.append
         /\ pc[s] = "returned"
         /\ stats[s].is_done)
            => NoDuplicates(file[s]) /\ HoldsArchive(file[s])

\* C5: whenever no page write is in progress, and at every exit of the run,
\* the lines the run has written are as many as the items of the pages its
\* fetches returned (stated for runs in which no write raised).
C5_WrittenEqualsFetched ==
    \A s \in Streams :
        (pc[s] \in {"loop", "fetch", "sleep", "returned"} /\ ~hist[s].write_raised)
            => Written(s) = hist[s].fetched

\* C6: an interruption takes effect only between fetch attempts, so a
\* paused stream has no fetch cut short and every accepted page fully
\* written.
C6_PauseOnlyBetweenAttempts ==
    \A s \in Streams :
        stats[s].is_paused
            => /\ hist[s].interrupted \in {"loop", "sleep"}
               /\ Written(s) = hist[s].fetched

\* C7: after a fetch succeeded (with a page, which was then written, or
\* with the empty page), the failure counter is 0 and the error flag is
\* cleared when the stream takes its next step or has terminated (stated
\* for runs in which no write raised).
C7_SuccessResetsBackoff ==
    \A s \in Streams :
        (/\ hist[s].outcome \in {"page", "empty"}
         /\ pc[s] \in {"loop", "returned"}
         /\ hist[s].interrupted \notin {"write", "flush"}
         /\ ~hist[s].write_raised)
            => stats[s].repeated_error_count = 0 /\ ~stats[s].has_error

C9_AbortAfterEleven ==
    \A s \in Streams :
        /\ hist[s].streak >= 11
             => /\ stats[s].is_done
                /\ stats[s].has_error
                /\ pc[s] = "returned"
        /\ (stats[s].is_done /\ hist[s].outcome # "empty")
             => hist[s].streak = 11

\* C9, witness: a stream has aborted in a run that had a failure, then a
\* page written, then 11 failures: 12 failures in total.
C9_Witness ==
    \E s \in Streams :
        /\ stats[s].is_done
        /\ stats[s].has_error
        /\ hist[s].outcome = "raise"
        /\ stats[s].total_items > 0
        /\ limit.errors = MaxBackoffErrors - 12

\* the lines the current run of s has added to its file, on disk or still
\* in the buffer of the handle
Added(s) == SubSeq(file[s] \o buf[s], hist[s].base + 1, Len(file[s]) + Len(buf[s]))

\* C11: after each successful page write (the flush returned and the loop
\* is about to test its condition again), the lines the run has added to
\* the file are exactly the lines of the pages accepted so far, in the
\* order fetched and in page order, none missing, doubled or out of order;
\* whether "accepted" means every non-empty page a fetch returned or
\* every page that was written in full.
C11_LinesAreAcceptedPages ==
    \A s \in Streams :
        (pc[s] = "loop" /\ hist[s].outcome = "page")
            => Added(s) = hist[s].accepted \/ Added(s) = hist[s].committed

\* C12: every page is flushed before the next fetch attempt is issued, so
\* what a crash would lose (the lines written to the handle and not yet
\* flushed) is nothing while no page is being written, and at most the
\* lines of the page being written while one is.
C12_FlushedBeforeNextFetch ==
    \A s \in Streams :
        handle[s] = "open"
            => /\ pc[s] \in {"loop", "fetch", "sleep"} => buf[s] = <<>>
               /\ pc[s] \in {"write", "flush"}
                    => buf[s] = SubSeq(Lines(data[s]), 1, idx[s])

\* C13: once a run has opened its file, with append = true every line the
\* file held before the invocation is still in place and the lines the run
\* writes come after them; with append = false the file holds nothing but
\* the lines the run has written.
C13_AppendKeepsTruncateEmpties ==
    \A s \in Streams :
        handle[s] # "none"
            => LET lines == file[s] \o buf[s]
                   old == env.before[s]
               IN  IF args.append
                   THEN /\ Len(lines) = Len(old) + hist[s].wrote
                        /\ SubSeq(lines, 1, Len(old)) = old
                   ELSE Len(lines) = hist[s].wrote

\* C13, witness: a second invocation with --append has written lines to a
\* file that held lines of the first, and its run has ended.
C13_Witness ==
    \E s \in Streams :
        /\ run = 2
        /\ args.append
        /\ env.before[s] # <<>>
        /\ hist[s].wrote > 0
        /\ handle[s] = "closed"

\* the run of s ended in failure: its start raised, or it returned with
\* the error flag set (the stream aborted, or its last attempt had failed)
Failed(s) ==
    \/ pc[s] = "raised"
    \/ pc[s] = "returned" /\ stats[s].has_error

\* C14: when both streams are configured and the posts stream has failed,
\* in whatever way, then by the time main is over the comments stream has
\* been started and has run to a terminal state of its own, and unless the
\* comments stream itself raised, CombinedArchiveStream.start returned
\* without raising (main returns 0).
C14_CommentsRunAfterPostsFails ==
    (args.posts /\ args.comments /\ mainpc = "exit" /\ Failed("posts"))
        => /\ pc["comments"] \in {"returned", "raised"}
           /\ pc["comments"] = "returned"
                => /\ exit_code = 0
                   /\ stats["comments"].is_done \/ stats["comments"].is_paused

\* C15: no failure of a fetch, and no exception raised while the response
\* is handled, leaves the stream: after a failed attempt the stream is
\* either about to retry (sleeping, then fetching again) or has returned
\* from start, having aborted or having been interrupted since; a start
\* that raised had made no attempt at all.
C15_FetchFailureStaysInStream ==
    \A s \in Streams :
        /\ hist[s].outcome \in {"raise", "write_raise"}
             => \/ pc[s] \in {"sleep", "loop", "fetch"} /\ ~stats[s].is_done
                \/ /\ pc[s] = "returned"
                   /\ hist[s].aborted \/ stats[s].is_paused
        /\ pc[s] = "raised" => hist[s].outcome = "none" /\ hist[s].streak = 0

\* C15, witness: start has returned, and main after it, from a run whose
\* fetches failed, were retried after a sleep each time, and failed until
\* the stream aborted.
C15_Witness ==
    \E s \in Streams :
        /\ hist[s].outcome = "raise"
        /\ hist[s].aborted
        /\ ~hist[s].write_raised
        /\ Len(hist[s].delays) > 0
        /\ pc[s] = "returned"
        /\ mainpc = "exit"

\* what the requests and the file operations of stream s change
Activity(s) == <<pc[s], after[s], file[s], buf[s], handle[s]>>

\* stream s has reached a terminal state and its start has returned
Terminal(s) ==
    pc[s] = "returned" /\ (stats[s].is_done \/ stats[s].is_paused)

\* C16: when both streams are configured, every step in which the comments
\* stream does something (it opens its file, sends a request, receives a
\* response, writes, flushes, closes) is taken when the posts stream has
\* reached a terminal state, done or paused, and every step in which the
\* posts stream does something is taken before the comments stream has
\* been started.
C16_PostsThenComments ==
    [][(args.posts /\ args.comments)
         => /\ Activity("comments")' # Activity("comments") => Terminal("posts")
            /\ Activity("posts")' # Activity("posts") => pc["comments"] = "idle"]_vars

\* C16, witness: the comments stream is writing a page it fetched, after
\* the posts stream wrote a page of its own and reached a terminal state.
C16_Witness ==
    /\ args.posts
    /\ pc["comments"] = "write"
    /\ hist["posts"].wrote > 0
    /\ Terminal("posts")

\* C17: when both streams are configured and an interruption has hit the
\* posts stream, the posts stream is paused and has returned, the
\* coordinator has moved on to the comments stream, and the comments stream
\* is not paused unless an interruption of its own hit it: once main is
\* through, the comments stream has been started and, unless its start
\* raised, has run to done or to its own pause.
C17_InterruptPausesOnlyPosts ==
    (args.posts /\ args.comments /\ hist["posts"].interrupted # "no")
        => /\ stats["posts"].is_paused
           /\ pc["posts"] = "returned"
           /\ mainpc \in {"comments", "comments_run", "finish", "exit", "killed"}
           /\ stats["comments"].is_paused => hist["comments"].interrupted # "no"
           /\ mainpc \in {"finish", "exit"}
                => pc["comments"] \in {"returned", "raised"}
           /\ pc["comments"] = "returned" => Terminal("comments")

\* C17, witness: the posts stream was interrupted while a request was in
\* flight; the comments stream then fetched and wrote a page, saw the
\* empty page and is done, not paused.
C17_Witness ==
    /\ hist["posts"].interrupted = "fetch"
    /\ stats["posts"].is_paused
    /\ pc["comments"] = "returned"
    /\ stats["comments"].is_done
    /\ ~stats["comments"].is_paused
    /\ stats["comments"].total_items > 0

\* C18: whenever start has returned (the stream completed, aborted or was
\* interrupted) or has raised, the file the run opened is not open any
\* more, and nothing is left in the buffer of its handle; a handle is open
\* only while the loop of its stream is running.
C18_SinkClosedOnEveryExit ==
    \A s \in Streams :
        /\ pc[s] \in {"returned", "raised"}
             => handle[s] # "open" /\ buf[s] = <<>>
        /\ pc[s] = "returned" => handle[s] = "closed"
        /\ handle[s] = "open" => Running(s)

\* C18, witness: an interruption hit the stream between the writes of a
\* page and the flush; start has returned, the file is closed and holds
\* the lines written.
C18_Witness ==
    \E s \in Streams :
        /\ hist[s].interrupted = "flush"
        /\ pc[s] = "returned"
        /\ handle[s] = "closed"
        /\ Len(file[s]) = hist[s].base + hist[s].wrote
        /\ hist[s].wrote > 0

\* C19: when validate_name is given a name shorter than 2 characters, a
\* response with a status other than 200, an error field, or no data for
\* the name, main is over with exit code 1 and nothing else has happened:
\* no stream exists, none was started, no request of a stream was sent,
\* and each output file is closed and holds what it held before the
\* invocation.
C19_InvalidNameTouchesNothing ==
    (env.given.short \/ env.given.status \/ env.given.error \/ env.given.no_data)
        => /\ mainpc = "exit"
           /\ exit_code = 1
           /\ \A s \in Streams :
                /\ pc[s] = "none"
                /\ handle[s] = "none"
                /\ hist[s] = Hist0
                /\ file[s] = env.before[s]
                /\ buf[s] = <<>>

\* C19, witness: the second invocation on files the first one filled was
\* answered by a response with status 200, with data and with an error
\* field, and has exited.
C19_Witness ==
    /\ run = 2
    /\ env.given = [NotValidated EXCEPT !.error = TRUE]
    /\ \E s \in Streams : file[s] # <<>>
    /\ mainpc = "exit"

\* C20: once validation and setup have succeeded (the streams have been
\* constructed), main returns exit code 0, whatever became of the streams.
C20_ExitZeroAfterSetup ==
    (mainpc = "exit" /\ \E s \in Streams : pc[s] # "none") => exit_code = 0

\* C21: once is_done or is_paused is true in a run, start has returned and
\* no later step sends a request of the stream, receives a response for
\* it, writes a line for it, or changes its cursor or its item count.
C21_TerminalIsFinal ==
    [][\A s \in Streams :
         (stats[s].is_done \/ stats[s].is_paused)
            => /\ pc[s] = "returned"
               /\ pc'[s] = "returned"
               /\ after'[s] = after[s]
               /\ hist'[s] = hist[s]
               /\ file'[s] \o buf'[s] = file[s] \o buf[s]
               /\ current_date'[s] = current_date[s]
               /\ stats'[s] = stats[s]]_vars

\* C21, witness: the posts stream is done after pages of its own, and the
\* program has gone on: the comments stream is writing a page.
C21_Witness ==
    /\ stats["posts"].is_done
    /\ stats["posts"].total_items > 0
    /\ pc["comments"] = "write"

\* C22: the step in which a fetch fails (_fetch_data raises) changes
\* neither the cursor, nor the item count, nor the lines of the file, and
\* the request sent next, the retry, carries the same after= value as the
\* request that failed.
C22_FailedFetchChangesNothing ==
    [][\A s \in Streams :
         /\ (pc[s] = "fetch" /\ hist'[s].outcome = "raise" /\ hist'[s] # hist[s])
              => /\ current_date'[s] = current_date[s]
                 /\ stats'[s].total_items = stats[s].total_items
                 /\ file'[s] \o buf'[s] = file[s] \o buf[s]
         /\ (hist[s].outcome = "raise" /\ pc[s] = "loop" /\ pc'[s] = "fetch")
              => after'[s] = after[s]]_vars

\* C22, witness: after a page was written, a fetch failed and the retry is
\* in flight, with the cursor the page left.
C22_Witness ==
    \E s \in Streams :
        /\ hist[s].outcome = "raise"
        /\ pc[s] = "fetch"
        /\ hist[s].committed # <<>>
        /\ after[s] > 0
        /\ after[s] = current_date[s]

\* C23: when writing a page has failed part-way (a write or the flush
\* raised) and the stream is on its way to the retry, the cursor is the one
\* the page was requested with and the item count is the number of items
\* of the pages written in full, so that the retry fetches the page again.
C23_AdvanceOnlyAfterWrite ==
    \A s \in Streams :
        (hist[s].outcome = "write_raise" /\ pc[s] \in {"sleep", "loop"})
            => /\ current_date[s] = after[s]
               /\ stats[s].total_items = Len(hist[s].committed)

C25_NextFetchMovesOn ==
    [][\A s \in Streams :
         (/\ hist[s].outcome \in {"page", "write_raise"}
          /\ pc[s] = "loop"
          /\ pc'[s] = "fetch")
            => after'[s] # after[s]]_vars

\* C25, witness: the last item of the page just written carried the
\* timestamp of the cursor the page was requested with, and the next
\* request is in flight, one tie-break further.
C25_Witness ==
    \E s \in Streams :
        /\ pc[s] = "fetch"
        /\ hist[s].outcome = "page"
        /\ hist[s].committed # <<>>
        /\ after[s] = ItemMs(Last(hist[s].committed).json) + TieBreakMs

\* everything the posts stream owns: its cursor, its stats, its position,
\* its page, its last request, its file and handle
Owned(s) ==
    <<current_date[s], stats[s], pc[s], data[s], idx[s], sleep_time[s],
      after[s], file[s], buf[s], handle[s]>>

\* C26: when both streams are configured, the first request of the
\* comments stream carries the configured start cursor and is sent with
\* item count 0, failure counter 0 and every flag false, whatever the posts
\* stream did; and no step taken from the moment the coordinator turns to
\* the comments stream changes anything the posts stream owns.
C26_StreamsShareNothing ==
    [][(args.posts /\ args.comments)
         => /\ (/\ hist["comments"].outcome = "none"
                 /\ pc["comments"] = "loop"
                 /\ pc'["comments"] = "fetch")
                 => /\ after'["comments"] \in StartDates
                    /\ stats["comments"] = DownloadStats
            /\ mainpc \in {"comments", "comments_run", "finish"}
                 => Owned("posts")' = Owned("posts")]_vars

\* C26, witness: the posts stream moved its cursor, counted items, and
\* returned paused with the error flag set and failures counted; the first
\* request of the comments stream is in flight.
C26_Witness ==
    /\ current_date["posts"] > 0
    /\ stats["posts"].total_items > 0
    /\ stats["posts"].has_error
    /\ stats["posts"].is_paused
    /\ stats["posts"].repeated_error_count > 0
    /\ pc["comments"] = "fetch"
    /\ hist["comments"].outcome = "none"
    /\ after["comments"] = 0

\* C27: at every point between two attempts and at every exit of a run,
\* has_error is true exactly when repeated_error_count is greater than 0.
C27_ErrorFlagIffCounter ==
    \A s \in Streams :
        stats[s].has_error <=> stats[s].repeated_error_count > 0

\* C27, witness: a run is over whose failures were followed by a page
\* written, which cleared flag and counter, and by failures again.
C27_Witness ==
    \E s \in Streams :
        /\ pc[s] = "returned"
        /\ hist[s].committed # <<>>
        /\ stats[s].has_error
        /\ stats[s].repeated_error_count > 0
        /\ limit.errors < MaxBackoffErrors - stats[s].repeated_error_count

\* start called again on s keeps the data of the earlier run: the call
\* leaves the cursor as the earlier run saved it; from then on the lines
\* the file held stay in place at its head; and when the earlier run was
\* done, no request is sent and the file holds those lines and no other.
RestartKeeps(s) ==
    /\ (pc[s] = "returned" /\ pc'[s] = "loop")
         => current_date'[s] = current_date[s]
    /\ (env'.earlier[s] # "none" /\ handle'[s] # "none")
         => LET lines == file'[s] \o buf'[s]
                old == env'.before[s]
            IN  /\ Len(lines) >= Len(old)
                /\ SubSeq(lines, 1, Len(old)) = old
                /\ env'.earlier[s] = "done"
                     => /\ hist'[s].outcome = "none"
                        /\ pc'[s] \in {"loop", "returned"}
                        /\ lines = old

\* C28, as claimed: start called again on an instance that is done or
\* paused keeps the data of the earlier run, with append = true and with
\* append = false.
C28_RestartKeepsData ==
    [][\A s \in Streams : RestartKeeps(s)]_vars

\* C28, amended: it keeps the data when the instance was constructed with
\* append = true.  (With append = false the file is opened in mode "w" and
\* the lines of the earlier run are gone: a done stream leaves an empty
\* file, a paused stream continues from its saved cursor into an empty
\* file.)
C28_RestartKeepsDataWhenAppending ==
    [][\A s \in Streams : args'.append => RestartKeeps(s)]_vars

\* C28, witness: with append = true, start was called again on a stream
\* that was paused after it had written lines, and the new run has
\* written lines after them.
C28_Witness ==
    \E s \in Streams :
        /\ args.append
        /\ env.earlier[s] \notin {"none", "done"}
        /\ env.before[s] # <<>>
        /\ hist[s].wrote > 0
        /\ pc[s] = "returned"

\* C29: when validate_name was given a name of 2 characters or more, a min
\* response with status 200, a date and no error field, and an info
\* response with status 200, then whatever the body of the info response
\* holds, validation has succeeded: the streams have been constructed and
\* main goes on to start them.
C29_ValidWhateverInfo ==
    (/\ mainpc \notin {"boot", "killed"}
     /\ ~env.given.short
     /\ ~env.given.status
     /\ ~env.given.error
     /\ ~env.given.no_data
     /\ ~env.given.raised)
        => \E s \in Streams : pc[s] # "none"

\* C30: in a URL-list run of the song downloader with skip_existing = true,
\* when the results are returned every URL whose target file existed when it
\* was processed has caused no request and is counted as skipped, success +
\* failed + skipped is the number of URLs of the list, and every URL counted
\* as a success had its file downloaded in this run.
C30_ExistingIsSkipped ==
    (sunopc = "done" /\ skip_existing) =>
        /\ \A k \in 1..Len(urls) :
             seen[k].existed =>
                 ~seen[k].requested /\ seen[k].status = "skipped"
        /\ Total(results) = Len(urls)
        /\ \A k \in 1..Len(urls) :
             seen[k].status = "success" => seen[k].downloaded
====
